---- MODULE Spec2Model ----
(***************************************************************************)
(* Model of tools/dashboard.py: the discovery scanners (PollThread), the   *)
(* shared priority queue, the checker workers (ExptCheckerThread), the     *)
(* result store (GrowingArray + Dashboard.checker_update), Dashboard.quit, *)
(* and the per-experiment check battery (ExptCheckerThread.check over      *)
(* ExperimentMetadata).                                                    *)
(*                                                                         *)
(* Ten specifications share the module and its variables:                  *)
(*   Spec      - the threaded pipeline (scanners, queue, workers, quit);   *)
(*               the check battery is abstracted to "returns a record" /   *)
(*               "raises".                                                 *)
(*   QueueSpec - the puts and gets of the shared queue alone, over a       *)
(*               wider range of timestamps.                                *)
(*   StoreSpec - Dashboard.checker_update and the GrowingArray behind it,  *)
(*               fed the records the workers emit.                         *)
(*   CheckSpec - one ExperimentMetadata object and the check battery run   *)
(*               on it, with the collaborators (config, filesystem,        *)
(*               registry, genotype decoder) drawn from small sets.        *)
(*   ScanSpec  - the scanners alone, the loop body of poll in two steps,   *)
(*               with stop() arriving at any time.                         *)
(*   ModeSpec  - Dashboard in both modes: the threaded pipeline of Spec,   *)
(*               or no_thread, where the constructor polls and checks in   *)
(*               the main thread with run(block=False).                    *)
(*   MemoSpec  - the path accessors of one ExperimentMetadata object read  *)
(*               while the filesystem changes.                             *)
(*   FetchSpec - the registry-backed accessors of one ExperimentMetadata   *)
(*               object read repeatedly, with the calls that reach the     *)
(*               registry counted.                                         *)
(*   ResolveSpec - the path accessors over every content of the configured *)
(*               roots, directories without a stored timestamp included.   *)
(*   StopSpec  - the scanner and worker threads with stop() called on any  *)
(*               of them at any time, repeatedly.                          *)
(* The queue order is that of the interpreter the program was written for  *)
(* (Python 2: every number sorts before every string, so the ('stop',None) *)
(* sentinel sorts after every (-ts, expt) item).                           *)
(***************************************************************************)
EXTENDS Integers, Sequences, FiniteSets, TLC

\* ---------------------------------------------------------------- bounds
NumPollers == 2       \* search paths that exist (one PollThread each)
MaxSites   == 2       \* experiments one pass of a scanner enqueues at most
MaxTs      == 3       \* timestamps are 1..MaxTs
MaxLimit   == 1       \* Dashboard(limit=...) is 0..MaxLimit
InitSize   == 1       \* GrowingArray(init_size=...), scaled down from 1000
MaxRecords == 3       \* records delivered to checker_update at most
MaxSets    == 2       \* storage-root-sets configured for a rig at most
MaxSubs    == 2       \* submissions the registry lists for a specimen at most

\* ------------------------------------------------------------- constants
NumCheckers == 3      \* for i in range(3)

Pollers  == 1..NumPollers
Checkers == 1..NumCheckers
Stamps   == 1..MaxTs
\* In the threaded pipeline the roots hold sites of MaxSites distinct timestamps.
PollStamps == 1..MaxSites
NoTs     == 0         \* site_info has no '__timestamp__' (timestamp is None)

\* An ExperimentMetadata object (object identity: the class defines neither
\* __eq__ nor __hash__) is identified by the scanner that built it and its
\* timestamp: a pass builds at most one enqueued object per timestamp.
ExptIds == Pollers \X Stamps
NoExpt  == <<0, 0>>

VARIABLES
    limit,          \* PollThread.limit (same for every poller)
    pollPc,         \* position of each PollThread.run
    pollStop,       \* PollThread._stop
    seen,           \* poll(): keys of the local dict expts
    count,          \* poll(): local count
    site,           \* poll(): ts of the site the loop body is handling, between
                    \* the test of _stop and the put (NoTs: none)
    queue,          \* Dashboard.expt_queue (queue.PriorityQueue)
    chkPc,          \* position of each ExptCheckerThread.run
    chkStop,        \* ExptCheckerThread._stop
    cur,            \* run(): the item (ts, expt) returned by get
    quitPc,         \* position of Dashboard.quit (main thread)
    event,          \* the signal the last step emitted (update.emit), if any
    minGot,         \* history: least timestamp get has returned so far
    records,        \* Dashboard.records (GrowingArray)
    recordsByExpt,  \* Dashboard.records_by_expt
    log,            \* history: per checker_update call, the row index it used
                    \* (kept by the tree item as item.index) and what it wrote
    env,            \* what one site's collaborators answer: its metadata, the
                    \* registry, the configured path sets and the filesystem
    obj,            \* the ExperimentMetadata object of that site (its caches)
    result,         \* the outcome of the last check of that object in run
                    \* (again: the object had been checked before)
    calls           \* history: how often the accessor reads of FetchSpec have
                    \* called lims.specimen_info and lims.expt_submissions

pollVars  == <<limit, pollPc, pollStop, seen, count, site>>
chkVars   == <<chkPc, chkStop, cur>>
histVars  == <<minGot>>
pipeVars  == <<pollVars, queue, chkVars, quitPc, event, histVars>>
storeVars == <<records, recordsByExpt, log>>
checkVars == <<env, obj, result, calls>>

vars == <<pipeVars, storeVars, checkVars>>

\* ------------------------------------------------------- the work queue
\* A work item (-ts, expt), and the sentinel ('stop', None).
ExptItem(t, id) == [kind |-> "expt", ts |-> t, id |-> id]
StopItem == [kind |-> "stop", ts |-> NoTs, id |-> NoExpt]

EmptyQueue == [items |-> {}, stops |-> 0]

QPut(q, it) ==
    IF it.kind = "stop" THEN [q EXCEPT !.stops = @ + 1]
    ELSE [q EXCEPT !.items = @ \cup {it}]

\* Mutant of QHeads: the sentinel sorts before the experiments.
QHeadsSentinelFirst(q) ==
    IF q.stops > 0 THEN {StopItem}
    ELSE {i \in q.items : \A j \in q.items : (0 - i.ts) <= (0 - j.ts)}

\* Mutant of QHeads: a first-in-first-out style queue that ignores the key.
QHeadsAnyOrder(q) ==
    IF q.items # {} THEN q.items
    ELSE IF q.stops > 0 THEN {StopItem} ELSE {}

\* The items get may return: a smallest tuple of the heap.  Keys are -ts, so
\* the smallest key is the greatest timestamp; equal keys fall through to the
\* comparison of the expt objects (arbitrary); 'stop' sorts after every number.
QHeads(q) ==
    IF q.items # {}
    THEN {i \in q.items : \A j \in q.items : (0 - i.ts) <= (0 - j.ts)}
    ELSE IF q.stops > 0 THEN {StopItem} ELSE {}

QRemove(q, it) ==
    IF it.kind = "stop" THEN [q EXCEPT !.stops = @ - 1]
    ELSE [q EXCEPT !.items = @ \ {it}]

QEmpty(q) == q.items = {} /\ q.stops = 0


\* ------------------------------------------------------ the result store
VisibleFields == {"timestamp", "path", "rig", "description", "primary",
                  "archive", "backup", "NAS", "pipettes.yml", "site.mosaic",
                  "DB", "LIMS", "20x", "cell map", "63x", "morphology"}
HiddenFields  == {"experiment", "item", "error"}
Fields        == VisibleFields \cup HiddenFields

\* np.empty on a dtype with object fields hands out zeroed memory: 0.0 for the
\* float, the empty string for 'S100', None for the object fields.
EmptyValue(f) ==
    CASE f = "timestamp"  -> NoTs
      [] f = "experiment" -> NoExpt
      [] f = "item"       -> 0
      [] OTHER            -> ""

EmptySlot == [f \in Fields |-> EmptyValue(f)]

\* GrowingArray.__init__: size, _data; _view is _data[:size].
NewArray == [size |-> 0, data |-> [i \in 1..InitSize |-> EmptySlot]]

View(arr) == SubSeq(arr.data, 1, arr.size)

\* Mutant of NpResize: a fresh allocation that does not carry the old rows.
NpResizeFresh(a, n) == [i \in 1..n |-> EmptySlot]

\* np.resize(a, n): a new array of n rows filled with repeated copies of a.
NpResize(a, n) == [i \in 1..n |-> a[((i - 1) % Len(a)) + 1]]

\* Mutant of Grow: the storage is extended by one row instead of doubled.
GrowByOne(arr, size) ==
    [size |-> size,
     data |-> IF size > Len(arr.data)
              THEN NpResize(arr.data, Len(arr.data) + 1)
              ELSE arr.data]

\* GrowingArray._grow
Grow(arr, size) ==
    [size |-> size,
     data |-> IF size > Len(arr.data)
              THEN NpResize(arr.data, Len(arr.data) * 2)
              ELSE arr.data]

\* GrowingArray.update_record; also the field writes record[field] = val of
\* checker_update, which go through the view into _data.  Row index is 0-based.
UpdateRecord(arr, index, rec) ==
    [arr EXCEPT !.data[index + 1] =
        [f \in Fields |-> IF f \in DOMAIN rec THEN rec[f] ELSE @[f]]]

\* GrowingArray.add_record: the new row's index is the old size.
AddRecord(arr, rec) == UpdateRecord(Grow(arr, arr.size + 1), arr.size, rec)

\* GrowingArray.__getitem__
ArrGet(arr, index) == View(arr)[index + 1]

\* ------------------------------------------- records a worker emits (run)
\* The record check returns.  The values of the status fields are computed by
\* the check battery (see CheckSpec); here they are the placeholder "checked".
OkRec(it) ==
    [f \in {"experiment", "path", "timestamp", "rig", "primary", "archive",
            "backup", "description", "pipettes.yml", "site.mosaic", "DB",
            "NAS", "LIMS"} |->
        CASE f = "experiment" -> it.id
          [] f = "timestamp"  -> it.ts
          [] f = "path"       -> "site"
          [] OTHER            -> "checked"]

\* The record of the except branch of run.
ErrorRec(it) ==
    [f \in {"experiment", "path", "timestamp", "rig", "error"} |->
        CASE f = "experiment" -> it.id
          [] f = "timestamp"  -> it.ts
          [] f = "path"       -> "site"
          [] f = "rig"        -> "ERROR"
          [] OTHER            -> "exc_info"]

\* ------------------------------------- ExperimentMetadata and the check
None  == "None"
Roles == {"primary", "archive", "backup"}

\* Genotype(gtyp).drivers() for the genotype string of the site: the driver
\* names in the decoder's order, or an exception.
DecodeOutcomes ==
    {[ok |-> FALSE, drivers |-> <<>>],
     [ok |-> TRUE, drivers |-> <<"sst-cre", "ai14">>],
     [ok |-> TRUE, drivers |-> <<"pvalb-cre">>]}

Organisms == {None, "human", "mouse"}
Genotypes == {None, "Sst-IRES-Cre/wt;Ai14/wt"}

\* lims.specimen_info(spec_name): a record, the "returned 0 results" error,
\* or any other error.
NoSpec == [found |-> FALSE, organism |-> None, genotype |-> None, specimen_id |-> 0]
SpecRecords ==
    [found : {TRUE}, organism : Organisms, genotype : {None, "Pvalb-IRES-Cre/wt"},
     specimen_id : {0, 1}]
SpecOutcomes ==
    [kind : {"notfound", "fails"}, rec : {NoSpec}] \cup [kind : {"found"}, rec : SpecRecords]

\* lims.expt_submissions(spec_id, timestamp): a list of n submissions, no
\* answer (None), or an error.
SubsOutcomes ==
    [kind : {"list"}, n : 0..MaxSubs] \cup [kind : {"none", "fails"}, n : {0}]

\* A resolved path: root of role r of the s-th path set of the rig, joined
\* with the experiment subpath.
Path(s, r) == [set |-> s, role |-> r]
NoPath     == [set |-> 0, role |-> None]

\* ExperimentMetadata.__init__: every cache is None.
NewObj ==
    [specimen_info |-> NoSpec, rig_name |-> None,
     paths |-> [r \in Roles |-> NoPath]]

\* The result [obj, val, exc] of evaluating an accessor: the object with its
\* caches afterwards, the value returned, and whether it raised instead.
Ret(o, v)  == [obj |-> o, val |-> v, exc |-> FALSE]
Raise(o)   == [obj |-> o, val |-> None, exc |-> TRUE]

\* ExperimentMetadata.specimen_info
SpecimenInfo(o, e) ==
    IF o.specimen_info.found THEN Ret(o, o.specimen_info)
    ELSE CASE e.spec.kind = "found" ->
                Ret([o EXCEPT !.specimen_info = e.spec.rec], e.spec.rec)
           [] e.spec.kind = "notfound" -> Ret(o, NoSpec)
           [] OTHER -> [obj |-> o, val |-> NoSpec, exc |-> TRUE]

\* ExperimentMetadata.organism
Organism(o, e) ==
    IF e.org # None THEN Ret(o, e.org)
    ELSE LET si == SpecimenInfo(o, e) IN
         IF si.exc THEN Raise(si.obj)
         ELSE IF ~si.val.found THEN Ret(si.obj, None)
         ELSE Ret(si.obj, si.val.organism)

\* ExperimentMetadata.genotype
Genotype(o, e) ==
    IF e.gtyp # None THEN Ret(o, e.gtyp)
    ELSE LET si == SpecimenInfo(o, e) IN
         IF si.exc THEN Raise(si.obj)
         ELSE IF ~si.val.found THEN Ret(si.obj, None)
         ELSE Ret(si.obj, si.val.genotype)

NoSubs == [kind |-> "none", n |-> 0]

\* ExperimentMetadata.lims_submissions
LimsSubmissions(o, e) ==
    LET si == SpecimenInfo(o, e) IN
    IF si.exc THEN [obj |-> si.obj, val |-> NoSubs, exc |-> TRUE]
    ELSE IF ~si.val.found THEN Ret(si.obj, NoSubs)
    ELSE IF si.val.specimen_id = 0 THEN Ret(si.obj, NoSubs)
    ELSE IF e.subs.kind = "fails" THEN [obj |-> si.obj, val |-> NoSubs, exc |-> TRUE]
    ELSE Ret(si.obj, e.subs)

\* ExperimentMetadata.rig_name: env.rig is the name the metadata field or the
\* path pattern gives, None when neither does.
RigName(o, e) ==
    IF o.rig_name # None THEN Ret(o, o.rig_name)
    ELSE IF e.rig = None THEN Raise(o)
    ELSE Ret([o EXCEPT !.rig_name = e.rig], e.rig)

\* os.path.isdir(test_path) and the timestamp comparison of _get_raw_paths.
Matches(e, s, r) == e.dirs[s][r] = "match"

\* The directory at test_path exists but its info() holds no '__timestamp__'
\* (sites like that exist: timestamp reads it with .get, and poll skips them):
\* the subscript of line 425 raises KeyError.
Untimed(e, s, r) == e.dirs[s][r] = "untimed"

\* The order in which path_set.values() yields the roots of a path set, as the
\* sequence of their role names (a dict: the order is not the program's choice).
RoleOrders ==
    {q \in [1..3 -> Roles] : \A i, j \in 1..3 : i # j => q[i] # q[j]}
ListedOrder == <<"primary", "archive", "backup">>

\* os.path.exists(path)
Exists(e, p) == e.dirs[p.set][p.role] # "absent"

\* Mutant of AssignRoles: only the roles whose own directory matches get a path.
AssignMatchingRoles(e, s, old) ==
    [r \in Roles |-> IF Matches(e, s, r) THEN Path(s, r) ELSE old[r]]

\* _get_raw_paths, the inner "for k,v in path_set.items(): setattr(...)":
\* every role that the accepted set s has a root for gets root/subpath; a
\* role the set does not configure keeps what it had.
AssignRoles(e, s, old) ==
    [r \in Roles |-> IF e.dirs[s][r] = "unconfigured" THEN old[r] ELSE Path(s, r)]

\* _get_raw_paths, the inner loop over the roots of path set s ends before
\* its last root: by a match (break) or by the KeyError of an untimed
\* directory.
Ends(e, s) == \E r \in Roles : Matches(e, s, r) \/ Untimed(e, s, r)

\* The inner loop over the roots of path set s, taken in the order e.order,
\* comes to an untimed directory before it comes to a matching one.
KeyErrorIn(e, s) ==
    \E i \in 1..3 :
        /\ Untimed(e, s, e.order[i])
        /\ \A j \in 1..(i - 1) : ~Matches(e, s, e.order[j])

\* _get_raw_paths, the two loops: the first path set of the rig at which the
\* scan ends (0: none).
FirstMatch(e) ==
    LET hits == {s \in 1..Len(e.dirs) : Ends(e, s)} IN
    IF hits = {} THEN 0 ELSE CHOOSE s \in hits : \A t \in hits : s <= t

\* ExperimentMetadata._get_raw_paths.  env.subpathOk: the subpath of the site
\* can be computed (for a server path, sync_source is readable and the site is
\* where nas_path says; otherwise line 410 or 412 raises).  env.dirs is
\* config.rig_data_paths.get(rig_name, []), one entry per configured path set.
GetRawPaths(o, e) ==
    IF ~e.subpathOk THEN Raise(o) ELSE
    LET rn == RigName(o, e) IN
    IF rn.exc THEN rn
    ELSE LET s == FirstMatch(e) IN
         IF s = 0 THEN Ret(rn.obj, None)
         ELSE IF KeyErrorIn(e, s) THEN Raise(rn.obj)
         ELSE Ret([rn.obj EXCEPT !.paths = AssignRoles(e, s, @)], None)

\* Mutant of PathOf: the read that resolves the paths returns the value the
\* cache had before.
PathOfStale(o, e, r) ==
    IF o.paths[r] # NoPath THEN Ret(o, o.paths[r])
    ELSE LET g == GetRawPaths(o, e) IN
         IF g.exc THEN [obj |-> g.obj, val |-> NoPath, exc |-> TRUE]
         ELSE Ret(g.obj, o.paths[r])

\* ExperimentMetadata.primary_path / archive_path / backup_path
PathOf(o, e, r) ==
    IF o.paths[r] # NoPath THEN Ret(o, o.paths[r])
    ELSE LET g == GetRawPaths(o, e) IN
         IF g.exc THEN [obj |-> g.obj, val |-> NoPath, exc |-> TRUE]
         ELSE Ret(g.obj, g.obj.paths[r])

\* A value of the 'description' field: a plain string, or (text, fail_color).
Plain(text)   == [text |-> text, failing |-> FALSE]
Failing(text) == [text |-> text, failing |-> TRUE]
NoDesc        == [text |-> "", failing |-> FALSE]

RECURSIVE Join(_)
\* ','.join(seq)
Join(seq) ==
    IF Len(seq) = 0 THEN ""
    ELSE IF Len(seq) = 1 THEN seq[1]
    ELSE seq[1] \o "," \o Join(Tail(seq))

\* Mutant of Describe: without the special case for 'human'.
DescribeNoHuman(o, e) ==
    LET org == Organism(o, e) IN
    IF org.exc THEN [obj |-> org.obj, val |-> NoDesc, exc |-> TRUE]
    ELSE IF org.val = None THEN Ret(org.obj, Failing("no LIMS spec info"))
    ELSE LET g == Genotype(org.obj, e) IN
         IF g.exc THEN [obj |-> g.obj, val |-> NoDesc, exc |-> TRUE]
         ELSE IF g.val = None
              THEN Ret(g.obj, Failing(org.val \o " (no genotype)"))
         ELSE IF e.decode.ok
              THEN Ret(g.obj, Plain(Join(e.decode.drivers)))
         ELSE Ret(g.obj, Failing(org.val \o " (unknown: " \o g.val \o ")"))

\* check: the description.
Describe(o, e) ==
    LET org == Organism(o, e) IN
    IF org.exc THEN [obj |-> org.obj, val |-> NoDesc, exc |-> TRUE]
    ELSE IF org.val = None THEN Ret(org.obj, Failing("no LIMS spec info"))
    ELSE IF org.val = "human" THEN Ret(org.obj, Plain(org.val))
    ELSE LET g == Genotype(org.obj, e) IN
         IF g.exc THEN [obj |-> g.obj, val |-> NoDesc, exc |-> TRUE]
         ELSE IF g.val = None
              THEN Ret(g.obj, Failing(org.val \o " (no genotype)"))
         ELSE IF e.decode.ok
              THEN Ret(g.obj, Plain(Join(e.decode.drivers)))
         ELSE Ret(g.obj, Failing(org.val \o " (unknown: " \o g.val \o ")"))

\* Python's True and False as they appear in a record.
Bool(b) == IF b THEN "True" ELSE "False"

\* Mutant of LimsStatus: any submission at all passes.
LimsStatusAny(subs) ==
    IF subs.kind = "none" THEN "ERROR" ELSE Bool(subs.n >= 1)

\* check: the 'LIMS' value computed from subs.
LimsStatus(subs) ==
    IF subs.kind = "none" THEN "ERROR" ELSE Bool(subs.n = 1)

\* Mutant of Presence: a resolved path is reported present without looking.
PresenceUnchecked(e, p, mark) ==
    IF p = NoPath THEN "False" ELSE "True"

\* check: the value of one of 'primary', 'archive', 'backup'; mark is what a
\* resolved path that does not exist gives ("-" for primary).
Presence(e, p, mark) ==
    IF p = NoPath THEN "False" ELSE IF Exists(e, p) THEN "True" ELSE mark

CheckKeys == {"experiment", "path", "timestamp", "rig", "primary", "archive",
              "backup", "description", "pipettes.yml", "site.mosaic", "DB",
              "NAS", "LIMS"}

\* What check leaves behind: the object, whether it raised, the local
\* description (NoDesc if it was not reached) and the record it returned.
Outcome(o, x, d, r) == [obj |-> o, exc |-> x, description |-> d, rec |-> r]

\* ExptCheckerThread.check(expt): the statements in order; the record literal
\* evaluates rig, primary, archive, backup before the remaining fields.
Check(o, e) ==
    LET d == Describe(o, e) IN
    IF d.exc THEN Outcome(d.obj, TRUE, NoDesc, <<>>) ELSE
    LET ls == LimsSubmissions(d.obj, e) IN
    IF ls.exc THEN Outcome(ls.obj, TRUE, d.val, <<>>) ELSE
    LET rn == RigName(ls.obj, e) IN
    IF rn.exc THEN Outcome(rn.obj, TRUE, d.val, <<>>) ELSE
    LET pp == PathOf(rn.obj, e, "primary") IN
    IF pp.exc THEN Outcome(pp.obj, TRUE, d.val, <<>>) ELSE
    LET ap == PathOf(pp.obj, e, "archive") IN
    IF ap.exc THEN Outcome(ap.obj, TRUE, d.val, <<>>) ELSE
    LET bp == PathOf(ap.obj, e, "backup") IN
    IF bp.exc THEN Outcome(bp.obj, TRUE, d.val, <<>>) ELSE
        Outcome(bp.obj, FALSE, d.val,
          [f \in CheckKeys |->
            CASE f = "experiment"   -> "expt"
              [] f = "path"         -> "site"
              [] f = "timestamp"    -> "ts"
              [] f = "rig"          -> rn.val
              [] f = "primary"      -> Presence(e, pp.val, "-")
              [] f = "archive"      -> Presence(e, ap.val, "MISSING")
              [] f = "backup"       -> Presence(e, bp.val, "MISSING")
              [] f = "description"  -> d.val
              [] f = "pipettes.yml" -> Bool(e.pipettes)
              [] f = "site.mosaic"  -> Bool(e.mosaic)
              [] f = "DB"           -> Bool(e.dbRows = 1)
              [] f = "NAS"          -> "True"
              [] f = "LIMS"         -> LimsStatus(ls.val)])

\* run: the record emitted for the site: the one check returned, or the one
\* the handler builds when check raised.
EmittedRec(out) ==
    IF out.exc
    THEN [f \in {"experiment", "path", "timestamp", "rig", "error"} |->
            CASE f = "experiment" -> "expt"
              [] f = "path"       -> "site"
              [] f = "timestamp"  -> "ts"
              [] f = "rig"        -> "ERROR"
              [] OTHER            -> "exc_info"]
    ELSE out.rec

\* The site of the pipeline specifications: nothing is asked of it there.
IdleEnv ==
    [org |-> None, gtyp |-> None, spec |-> [kind |-> "notfound", rec |-> NoSpec],
     decode |-> [ok |-> FALSE, drivers |-> <<>>],
     subs |-> NoSubs, rig |-> "mp1", subpathOk |-> TRUE, dirs |-> <<>>,
     order |-> ListedOrder,
     pipettes |-> TRUE,
     mosaic |-> TRUE, dbRows |-> 1]

NoResult ==
    [ran |-> FALSE, again |-> FALSE, exc |-> FALSE, description |-> NoDesc,
     rec |-> <<>>]

NoCalls == [specimen_info |-> 0, expt_submissions |-> 0]

CheckIdle ==
    /\ env = IdleEnv
    /\ obj = NewObj
    /\ result = NoResult
    /\ calls = NoCalls

\* ---------------------------------------------------------------- Init
NoItem  == [kind |-> "none", ts |-> NoTs, id |-> NoExpt]
NoEvent == [kind |-> "none"]
\* PollThread.update.emit(path, status); the path is the poller's search path.
StatusEvent(p, msg) == [kind |-> "status", path |-> p, status |-> msg]

\* Dashboard.__init__ has run: every poller and checker thread is started,
\* the queue and the store are empty.
PipeInit ==
    /\ limit \in 0..MaxLimit
    /\ pollPc = [p \in Pollers |-> "start"]
    /\ pollStop = [p \in Pollers |-> FALSE]
    /\ seen = [p \in Pollers |-> {}]
    /\ count = [p \in Pollers |-> 0]
    /\ site = [p \in Pollers |-> NoTs]
    /\ queue = EmptyQueue
    /\ chkPc = [w \in Checkers |-> "get"]
    /\ chkStop = [w \in Checkers |-> FALSE]
    /\ cur = [w \in Checkers |-> NoItem]
    /\ quitPc = <<"running", 0>>
    /\ event = NoEvent
    /\ minGot = NoTs

StoreInit ==
    /\ records = NewArray
    /\ recordsByExpt = <<>>
    /\ log = <<>>

Init == PipeInit /\ StoreInit /\ CheckIdle

\* ------------------------------------------------------------ PollThread
\* run enters poll: the local state is set up and "Updating..." is emitted.
PollBegin(p) ==
    /\ pollPc[p] = "start"
    /\ pollPc' = [pollPc EXCEPT ![p] = "scan"]
    /\ seen' = [seen EXCEPT ![p] = {}]
    /\ count' = [count EXCEPT ![p] = 0]
    /\ event' = StatusEvent(p, "Updating...")
    /\ UNCHANGED <<limit, site, pollStop, queue, chkVars, quitPc, histVars, storeVars, checkVars>>

\* poll is left (return, or an exception): its locals expts and count are gone.
PollReturns(p) ==
    /\ seen' = [seen EXCEPT ![p] = {}]
    /\ count' = [count EXCEPT ![p] = 0]

\* One iteration of the for loop of poll: the glob iterator yields a site
\* whose timestamp is t (NoTs: unreadable).  The pass enqueues at most
\* MaxSites experiments.
PollSite(p) ==
    /\ pollPc[p] = "scan"
    /\ IF pollStop[p]
       THEN \* if self._stop: return
            /\ pollPc' = [pollPc EXCEPT ![p] = "wait"]
            /\ PollReturns(p)
            /\ UNCHANGED queue
       ELSE \E t \in PollStamps \cup {NoTs} :
            IF t = NoTs \/ t \in seen[p]
            THEN \* continue
                 UNCHANGED <<seen, count, queue, pollPc>>
            ELSE /\ count[p] < MaxSites
                 /\ queue' = QPut(queue, ExptItem(t, <<p, t>>))
                 /\ IF limit > 0 /\ count[p] + 1 >= limit
                    THEN \* Hit limit; return
                         /\ pollPc' = [pollPc EXCEPT ![p] = "wait"]
                         /\ PollReturns(p)
                    ELSE /\ seen' = [seen EXCEPT ![p] = @ \cup {t}]
                         /\ count' = [count EXCEPT ![p] = @ + 1]
                         /\ UNCHANGED pollPc
    /\ event' = NoEvent
    /\ UNCHANGED <<limit, site, pollStop, chkVars, quitPc, histVars, storeVars, checkVars>>

\* The glob iterator is exhausted: "Finished" is emitted and poll returns.
PollEnd(p) ==
    /\ pollPc[p] = "scan"
    /\ event' = StatusEvent(p, "Finished")
    /\ pollPc' = [pollPc EXCEPT ![p] = "wait"]
    /\ PollReturns(p)
    /\ UNCHANGED <<limit, site, pollStop, queue, chkVars, quitPc, histVars, storeVars, checkVars>>

\* Mutant of PollRaise: the exception is not caught in run and takes the
\* other scanner threads down with it.
PollRaiseEndsAll(p) ==
    /\ pollPc[p] = "scan"
    /\ pollPc' = [q \in Pollers |-> "done"]
    /\ seen' = [q \in Pollers |-> {}]
    /\ count' = [q \in Pollers |-> 0]
    /\ event' = NoEvent
    /\ UNCHANGED <<limit, site, pollStop, queue, chkVars, quitPc, histVars, storeVars, checkVars>>

\* An exception inside poll (database.Session, getDirHandle, the metadata of
\* a site): caught in run, reported through sys.excepthook, then the break.
PollRaise(p) ==
    /\ pollPc[p] = "scan"
    /\ pollPc' = [pollPc EXCEPT ![p] = "done"]
    /\ PollReturns(p)
    /\ event' = NoEvent
    /\ UNCHANGED <<limit, site, pollStop, queue, chkVars, quitPc, histVars, storeVars, checkVars>>

\* run after self.waker.wait(3600) returns: "if self._stop: return" ends the
\* thread, and otherwise control leaves the try block and reaches the break,
\* which leaves the while loop and ends the thread as well.
AfterWait(stop) == IF stop THEN "done" ELSE "done"

\* waker.wait returns: the interval has elapsed or stop() has set the waker.
PollWake(p) ==
    /\ pollPc[p] = "wait"
    /\ pollPc' = [pollPc EXCEPT ![p] = AfterWait(pollStop[p])]
    /\ event' = NoEvent
    /\ UNCHANGED <<limit, site, pollStop, seen, count, queue, chkVars, quitPc,
                   histVars, storeVars, checkVars>>

\* PollThread.stop (the waker is set together with the flag: a waiting run
\* wakes, which PollWake allows at any time).
StopPoller(p) == pollStop' = [pollStop EXCEPT ![p] = TRUE]

\* ----------------------------------------------------- ExptCheckerThread
\* ExptCheckerThread.stop
StopChecker(w) ==
    /\ chkStop' = [chkStop EXCEPT ![w] = TRUE]
    /\ queue' = QPut(queue, StopItem)

\* expt_queue.get returns it: the item leaves the queue.
Take(it) ==
    /\ queue' = QRemove(queue, it)
    /\ minGot' = IF it.kind = "expt" /\ (minGot = NoTs \/ it.ts < minGot)
                 THEN it.ts ELSE minGot

\* run: ts, expt = self.expt_queue.get(block=True) returns an item.
Get(w) ==
    /\ chkPc[w] = "get"
    /\ ~QEmpty(queue)
    /\ \E it \in QHeads(queue) :
        /\ Take(it)
        /\ cur' = [cur EXCEPT ![w] = it]
    /\ chkPc' = [chkPc EXCEPT ![w] = "have"]
    /\ event' = NoEvent
    /\ UNCHANGED <<pollVars, chkStop, quitPc, storeVars, checkVars>>

\* run: the condition of "if self._stop or ts == 'stop': return".
StopsNow(w) == chkStop[w] \/ cur[w].kind = "stop"

\* run: the if after get: return, or enter the try block and start the check.
Decide(w) ==
    /\ chkPc[w] = "have"
    /\ IF StopsNow(w)
       THEN \* return: the thread ends and its locals are gone
            /\ chkPc' = [chkPc EXCEPT ![w] = "done"]
            /\ cur' = [cur EXCEPT ![w] = NoItem]
       ELSE /\ chkPc' = [chkPc EXCEPT ![w] = "checking"]
            /\ UNCHANGED cur
    /\ event' = NoEvent
    /\ UNCHANGED <<pollVars, queue, chkStop, quitPc, histVars, storeVars, checkVars>>

\* run: self.update.emit(rec), at the end of the try block or of the handler;
\* control then reaches the end of the loop body and while True iterates.
Emit(w, rec) ==
    /\ event' = [kind |-> "emit", by |-> w, rec |-> rec]
    /\ chkPc' = [chkPc EXCEPT ![w] = "get"]
    /\ cur' = [cur EXCEPT ![w] = NoItem]

\* run: rec = self.check(expt) returns and the record is emitted.
CheckReturns(w) ==
    /\ chkPc[w] = "checking"
    /\ Emit(w, OkRec(cur[w]))
    /\ UNCHANGED <<pollVars, queue, chkStop, quitPc, histVars, storeVars, checkVars>>

\* run: self.check(expt) raises; control enters "except Exception".
CheckRaises(w) ==
    /\ chkPc[w] = "checking"
    /\ chkPc' = [chkPc EXCEPT ![w] = "except"]
    /\ event' = NoEvent
    /\ UNCHANGED <<pollVars, queue, chkStop, cur, quitPc, histVars, storeVars, checkVars>>

\* Mutant of Handle: the exception is not handled and the thread ends.
HandleDies(w) ==
    /\ chkPc[w] = "except"
    /\ chkPc' = [chkPc EXCEPT ![w] = "done"]
    /\ event' = NoEvent
    /\ UNCHANGED <<pollVars, queue, chkStop, cur, quitPc, histVars, storeVars, checkVars>>

\* run: the except branch builds the error record and emits it.
Handle(w) ==
    /\ chkPc[w] = "except"
    /\ Emit(w, ErrorRec(cur[w]))
    /\ UNCHANGED <<pollVars, queue, chkStop, quitPc, histVars, storeVars, checkVars>>

\* ------------------------------------------------------- Dashboard.quit
\* quitPc is <<"running", 0>> before quit is called, <<"pollers", i>> /
\* <<"checkers", i>> while quit is inside t.wait() after t.stop() for the
\* i-th poller / checker, and <<"done", 0>> when quit has returned.
QuitBegin ==
    /\ quitPc = <<"running", 0>>
    /\ StopPoller(1)
    /\ quitPc' = <<"pollers", 1>>
    /\ event' = NoEvent
    /\ UNCHANGED <<limit, site, pollPc, seen, count, queue, chkVars, histVars,
                   storeVars, checkVars>>

PollerFinished(p) == pollPc[p] = "done"

\* t.wait() returns for poller i; the next poller is stopped.
QuitNextPoller ==
    /\ quitPc[1] = "pollers"
    /\ quitPc[2] < NumPollers
    /\ PollerFinished(quitPc[2])
    /\ StopPoller(quitPc[2] + 1)
    /\ quitPc' = <<"pollers", quitPc[2] + 1>>
    /\ event' = NoEvent
    /\ UNCHANGED <<limit, site, pollPc, seen, count, queue, chkVars, histVars,
                   storeVars, checkVars>>

\* t.wait() returns for the last poller; the first checker is stopped.
QuitFirstChecker ==
    /\ quitPc = <<"pollers", NumPollers>>
    /\ PollerFinished(NumPollers)
    /\ StopChecker(1)
    /\ quitPc' = <<"checkers", 1>>
    /\ event' = NoEvent
    /\ UNCHANGED <<pollVars, chkPc, cur, histVars, storeVars, checkVars>>

\* t.wait() returns for checker i; the next checker is stopped.
QuitNextChecker ==
    /\ quitPc[1] = "checkers"
    /\ quitPc[2] < NumCheckers
    /\ chkPc[quitPc[2]] = "done"
    /\ StopChecker(quitPc[2] + 1)
    /\ quitPc' = <<"checkers", quitPc[2] + 1>>
    /\ event' = NoEvent
    /\ UNCHANGED <<pollVars, chkPc, cur, histVars, storeVars, checkVars>>

\* t.wait() returns for the last checker; quit returns.
QuitEnd ==
    /\ quitPc = <<"checkers", NumCheckers>>
    /\ chkPc[NumCheckers] = "done"
    /\ quitPc' = <<"done", 0>>
    /\ event' = NoEvent
    /\ UNCHANGED <<pollVars, queue, chkVars, histVars, storeVars, checkVars>>

Next ==
    \/ \E p \in Pollers : PollBegin(p)
    \/ \E p \in Pollers : PollSite(p)
    \/ \E p \in Pollers : PollEnd(p)
    \/ \E p \in Pollers : PollRaise(p)
    \/ \E p \in Pollers : PollWake(p)
    \/ \E w \in Checkers : Get(w)
    \/ \E w \in Checkers : Decide(w)
    \/ \E w \in Checkers : CheckReturns(w)
    \/ \E w \in Checkers : CheckRaises(w)
    \/ \E w \in Checkers : Handle(w)
    \/ QuitBegin
    \/ QuitNextPoller
    \/ QuitFirstChecker
    \/ QuitNextChecker
    \/ QuitEnd

Spec == Init /\ [][Next]_vars

\* ------------------------------------------------------------ QueueSpec
\* The queue alone, under every interleaving of the operations the threads
\* perform on it: the put of poll, the put of ExptCheckerThread.stop and the
\* get of ExptCheckerThread.run.  A scanner puts a timestamp once per pass.
QueueInit ==
    /\ PipeInit
    /\ limit = 0
    /\ StoreInit
    /\ CheckIdle

\* poll: a site with a new timestamp t is put as (-t, expt).
QsPut(p) ==
    /\ \E t \in Stamps \ seen[p] :
        /\ seen' = [seen EXCEPT ![p] = @ \cup {t}]
        /\ queue' = QPut(queue, ExptItem(t, <<p, t>>))
    /\ UNCHANGED <<limit, site, pollPc, pollStop, count, chkVars, quitPc, event,
                   histVars, storeVars, checkVars>>

\* ExptCheckerThread.stop is called on worker w.
QsStop(w) ==
    /\ ~chkStop[w]
    /\ StopChecker(w)
    /\ UNCHANGED <<pollVars, chkPc, cur, quitPc, event, histVars, storeVars, checkVars>>

\* The get of some worker returns.
QsGet ==
    /\ ~QEmpty(queue)
    /\ \E it \in QHeads(queue) : Take(it)
    /\ UNCHANGED <<pollVars, chkVars, quitPc, event, storeVars, checkVars>>

QueueNext ==
    \/ \E p \in Pollers : QsPut(p)
    \/ \E w \in Checkers : QsStop(w)
    \/ QsGet

QueueSpec == QueueInit /\ [][QueueNext]_vars


\* ------------------------------------------------ claims on the pipeline
\* C1 (as claimed): a scanner that has not been asked to stop re-scans: when
\* its sleep ends and no stop was requested, it starts another scan pass.
C1_RescansAfterInterval ==
    [][\A p \in Pollers :
         (pollPc[p] = "wait" /\ ~pollStop[p] /\ pollPc'[p] # "wait")
            => pollPc'[p] \in {"start", "scan"}]_vars

\* C2 (as claimed): shutdown terminates: while quit is waiting for a thread,
\* some thread can still take a step, so quit is never left waiting in a state
\* where nothing can happen any more.
C2_QuitTerminates ==
    quitPc[1] \in {"pollers", "checkers"} => ENABLED Next

\* The experiment items a step removes from the queue.
Returned == queue.items \ queue'.items

\* C4 (as claimed): for timestamps T1 < T2, in any interleaving of puts and
\* gets, get returns T2 before T1: no get returns a timestamp greater than
\* one that a get has returned before.
C4_NewestFirstInAnyInterleaving ==
    [][\A it \in Returned : minGot = NoTs \/ it.ts <= minGot]_vars

\* C4 (amended): for items that are in the queue together, get returns the
\* greater timestamp first: an experiment that get returns has a timestamp no
\* smaller than any experiment it leaves in the queue, so T1 < T2 < T3 queued
\* together come out as T3, T2, T1.
C4_NewestQueuedFirst ==
    [][\A it \in Returned : \A j \in queue'.items : j.ts <= it.ts]_vars

\* Witness of C4: one scanner has put the timestamps 1, 2 and 3; 3 and 2 have
\* been returned and 1 is still queued.
C4_Witness ==
    \E p \in Pollers :
        /\ seen[p] = {1, 2, 3}
        /\ minGot = 2
        /\ queue.items = {ExptItem(1, <<p, 1>>)}

\* C5: a worker whose check raised leaves the handler only by emitting a
\* record for that experiment with the failure in 'error', and is then back
\* at get (it has not terminated).
C5_FailureIsolated ==
    [][\A w \in Checkers :
         (chkPc[w] = "except" /\ chkPc'[w] # "except")
            => /\ chkPc'[w] = "get"
               /\ event'.kind = "emit"
               /\ event'.by = w
               /\ event'.rec["experiment"] = cur[w].id
               /\ "error" \in DOMAIN event'.rec
               /\ event'.rec["error"] # ""]_vars

\* Witness of C5: a worker has just emitted an error record, is back at get,
\* and an experiment is queued for it to dequeue next.
C5_Witness ==
    /\ event.kind = "emit"
    /\ "error" \in DOMAIN event.rec
    /\ chkPc[event.by] = "get"
    /\ queue.items # {}

\* C6 (as claimed): every experiment item a worker has removed from the queue
\* gets its record: the worker lets go of the item only by emitting a record
\* for that experiment.
C6_RecordForEveryItem ==
    [][\A w \in Checkers :
         (cur[w].kind = "expt" /\ cur'[w] # cur[w])
            => /\ event'.kind = "emit"
               /\ event'.by = w
               /\ event'.rec["experiment"] = cur[w].id]_vars


\* ------------------------------------------------------------ StoreSpec
\* The result store under every sequence of records the workers can emit:
\* one record, returned by check or built by the handler, per
\* ExperimentMetadata object, in any order.
Delivered == {log[n].rec["experiment"] : n \in 1..Len(log)}

\* Dashboard.checker_update(rec), run by the main thread for one emitted
\* record.  (Tree item texts, colours and filter values are presentation and
\* are left out; the new tree item is identified by a number.)
CheckerUpdate(rec) ==
    LET expt  == rec["experiment"]
        known == expt \in DOMAIN recordsByExpt
        index == IF known THEN recordsByExpt[expt] ELSE records.size
        arr   == IF known THEN records ELSE AddRecord(records, <<>>)
        rec1  == IF known THEN rec
                 ELSE [f \in DOMAIN rec \cup {"item"} |->
                          IF f = "item" THEN records.size + 1 ELSE rec[f]]
    IN  /\ records' = UpdateRecord(arr, index, rec1)
        /\ log' = Append(log, [index |-> index, rec |-> rec1])
        /\ UNCHANGED recordsByExpt

\* The record of experiment id is delivered; raised tells which branch of
\* run built it.
Deliver(id, raised) ==
    /\ id \notin Delivered
    /\ Len(log) < MaxRecords
    /\ LET it == ExptItem(id[2], id) IN
          CheckerUpdate(IF raised THEN ErrorRec(it) ELSE OkRec(it))
    /\ UNCHANGED <<pipeVars, checkVars>>

StoreNext == \E id \in ExptIds, raised \in BOOLEAN : Deliver(id, raised)

StoreSpec == QueueInit /\ [][StoreNext]_vars

\* --------------------------------------------------- claims on the store
Rows == 0..(records.size - 1)

\* C3 (as claimed): the store holds one record per experiment identity:
\* records of experiments with equal timestamps collapse to one row.
C3_OneRecordPerIdentity ==
    \A i, j \in Rows :
        i # j => ArrGet(records, i)["timestamp"] # ArrGet(records, j)["timestamp"]

\* C7: the n-th add_record returned index n-1 (so all indices differ), and the
\* row read at each returned index still holds the values written to it,
\* whatever was added afterwards.
C7_StableIndices ==
    \A n \in 1..Len(log) :
        /\ log[n].index = n - 1
        /\ log[n].index \in Rows
        /\ \A f \in DOMAIN log[n].rec :
              ArrGet(records, log[n].index)[f] = log[n].rec[f]

\* Witness of C7: the backing array has doubled twice since the first record
\* was added.
C7_Witness ==
    /\ Len(log) >= 3
    /\ Len(records.data) >= 4 * InitSize


\* ------------------------------------------------------------ CheckSpec
\* One site and its ExperimentMetadata object.  The collaborators' answers
\* are fixed in the initial state, one family at a time: the metadata and the
\* registry vary with no path set configured, or the configured path sets and
\* the directories under their roots vary with a registry that answers.
\* What is found at root/subpath for a role of a path set: nothing, the
\* site's directory (same timestamp), or another directory.  In CheckSpec
\* every path set configures all three roles.
DirStates == {"absent", "match", "other"}
PathSets(n) == [1..n -> [Roles -> DirStates]]

RegistryInputs ==
    [org : Organisms, gtyp : Genotypes, decode : DecodeOutcomes,
     spec : SpecOutcomes, subs : SubsOutcomes,
     rig : {"mp1"}, subpathOk : {TRUE}, dirs : {<<>>},
     order : {ListedOrder}, pipettes : {TRUE},
     mosaic : {TRUE}, dbRows : {1}]

PathInputs ==
    [org : {"human"}, gtyp : {None}, decode : {[ok |-> FALSE, drivers |-> <<>>]},
     spec : {[kind |-> "found",
              rec |-> [found |-> TRUE, organism |-> "human", genotype |-> None,
                       specimen_id |-> 1]]},
     subs : {[kind |-> "list", n |-> 1]},
     rig : {"mp1", None}, subpathOk : BOOLEAN,
     dirs : UNION {PathSets(n) : n \in 0..MaxSets}, order : {ListedOrder},
     pipettes : {TRUE}, mosaic : {TRUE}, dbRows : {1}]

CheckInit ==
    /\ PipeInit
    /\ limit = 0
    /\ StoreInit
    /\ env \in RegistryInputs \cup PathInputs
    /\ obj = NewObj
    /\ result = NoResult
    /\ calls = NoCalls

\* A read of expt.primary_path, expt.archive_path or expt.backup_path.
ReadPath(r) ==
    /\ obj' = PathOf(obj, env, r).obj
    /\ UNCHANGED <<env, result, calls, pipeVars, storeVars>>

\* run: one iteration for this site: check(expt) in the try block, the record
\* of the handler if it raised, and the emit.
RunCheck ==
    /\ LET out == Check(obj, env) IN
        /\ obj' = out.obj
        /\ result' = [ran |-> TRUE, again |-> result.ran, exc |-> out.exc,
                      description |-> out.description, rec |-> EmittedRec(out)]
    /\ UNCHANGED <<env, calls, pipeVars, storeVars>>

CheckNext ==
    \/ \E r \in Roles : ReadPath(r)
    \/ RunCheck

CheckSpec == CheckInit /\ [][CheckNext]_vars

\* ------------------------------------------- claims about the check
\* What the site's metadata and the registry say, read off the inputs.
RegistryRaises(e) == e.spec.kind = "fails"
OrganismOf(e) ==
    IF e.org # None THEN e.org
    ELSE IF e.spec.kind = "found" THEN e.spec.rec.organism ELSE None
GenotypeOf(e) ==
    IF e.gtyp # None THEN e.gtyp
    ELSE IF e.spec.kind = "found" THEN e.spec.rec.genotype ELSE None
OrganismKnown(e) == e.org # None \/ ~RegistryRaises(e)
GenotypeKnown(e) == e.gtyp # None \/ ~RegistryRaises(e)

\* The registry answered the question about submissions with a list of n.
Submissions(e, n) ==
    /\ e.spec.kind = "found"
    /\ e.spec.rec.specimen_id # 0
    /\ e.subs = [kind |-> "list", n |-> n]

\* A fetch from the registry raised (other than "returned 0 results").
FetchRaises(e) ==
    \/ e.spec.kind = "fails"
    \/ /\ e.spec.kind = "found"
       /\ e.spec.rec.specimen_id # 0
       /\ e.subs.kind = "fails"

\* The registry gave no list: it has no such specimen, the specimen has no
\* id, or the submissions call returned None.
NoAnswer(e) ==
    \/ e.spec.kind = "notfound"
    \/ /\ e.spec.kind = "found"
       /\ \/ e.spec.rec.specimen_id = 0
          \/ e.subs.kind = "none"

Checked == result.ran /\ ~result.exc

\* Set s is the one _get_raw_paths accepts, and in it the directories under
\* the primary and backup roots match while the one under archive does not.
PrimaryAndBackupOnly(s) ==
    /\ s \in 1..Len(env.dirs)
    /\ \A t \in 1..(s - 1) : \A r \in Roles : env.dirs[t][r] # "match"
    /\ env.dirs[s]["primary"] = "match"
    /\ env.dirs[s]["backup"] = "match"
    /\ env.dirs[s]["archive"] \in {"absent", "other"}

\* _get_raw_paths has run to its end on the object.
Resolved == env.subpathOk /\ obj.rig_name # None

\* C8 as claimed: with matching directories under the primary and backup
\* roots of the accepted set only, resolution populates the primary and
\* backup paths and leaves the archive path unknown.
C8_RolesAssignedIndividually ==
    \A s \in 1..MaxSets :
        PrimaryAndBackupOnly(s) /\ Resolved =>
            /\ obj.paths["primary"] = Path(s, "primary")
            /\ obj.paths["backup"] = Path(s, "backup")
            /\ obj.paths["archive"] = NoPath

\* C8 amended: the roles of the accepted set are assigned together: all of
\* primary, backup and archive are populated from that set, and the record
\* of the check reports primary and backup present and archive "MISSING"
\* when nothing exists at the archive path (true when something does).
C8_RolesAssignedTogether ==
    \A s \in 1..MaxSets :
        PrimaryAndBackupOnly(s) /\ Resolved =>
            /\ \A r \in Roles : obj.paths[r] = Path(s, r)
            /\ Checked =>
                /\ result.rec["primary"] = "True"
                /\ result.rec["backup"] = "True"
                /\ result.rec["archive"] =
                     IF env.dirs[s]["archive"] = "absent" THEN "MISSING" ELSE "True"

C8_Witness ==
    /\ PrimaryAndBackupOnly(2)
    /\ env.dirs[2]["archive"] = "absent"
    /\ Checked
    /\ obj.paths["archive"] = Path(2, "archive")
    /\ result.rec["archive"] = "MISSING"

\* C9 as claimed: for a checked experiment one submission gives true and any
\* other number false; when the fetch itself fails the emitted record has
\* "ERROR" in the registry field.
C9_FetchFailureGivesError ==
    result.ran =>
        /\ \A n \in 0..MaxSubs :
              Submissions(env, n) /\ Checked => result.rec["LIMS"] = Bool(n = 1)
        /\ FetchRaises(env) =>
              /\ "LIMS" \in DOMAIN result.rec
              /\ result.rec["LIMS"] = "ERROR"

\* C9 amended: for a checked experiment one submission gives true and any
\* other number false; "ERROR" is the value when the registry has no such
\* specimen, the specimen has no id, or the submissions call returns nothing;
\* a registry fetch that raises makes the check fail as a whole: the emitted
\* record is the error record (rig "ERROR", the failure in 'error') and has
\* no registry field.
C9_RegistryStatus ==
    result.ran =>
        /\ \A n \in 0..MaxSubs :
              Submissions(env, n) /\ Checked => result.rec["LIMS"] = Bool(n = 1)
        /\ NoAnswer(env) /\ Checked => result.rec["LIMS"] = "ERROR"
        /\ FetchRaises(env) =>
              /\ result.exc
              /\ "LIMS" \notin DOMAIN result.rec
              /\ result.rec["rig"] = "ERROR"
              /\ result.rec["error"] = "exc_info"

C9_Witness ==
    /\ result.ran
    /\ env.spec.kind = "found"
    /\ env.spec.rec.specimen_id = 1
    /\ env.subs.kind = "fails"
    /\ result.rec["rig"] = "ERROR"

\* The description step of the check raised: check ended before description
\* was assigned.
DescriptionRaised == result.ran /\ result.exc /\ result.description = NoDesc

\* C10 as claimed: with the organism present, a genotype that decodes gives
\* the driver names joined by ',' unflagged, a missing genotype gives the
\* 'no genotype' text flagged, an undecodable one the 'unknown' text flagged,
\* and none of these raises.
C10_DescriptionCases ==
    LET org == OrganismOf(env)
        g   == GenotypeOf(env)
    IN  result.ran /\ OrganismKnown(env) /\ GenotypeKnown(env) /\ org # None =>
            /\ ~DescriptionRaised
            /\ g # None /\ env.decode.ok =>
                  result.description = Plain(Join(env.decode.drivers))
            /\ g = None => result.description = Failing(org \o " (no genotype)")
            /\ g # None /\ ~env.decode.ok =>
                  result.description = Failing(org \o " (unknown: " \o g \o ")")

\* C10 amended: the organism 'human' gives the description 'human', not
\* flagged, whatever the genotype; for any other present organism the three
\* cases are as claimed (mouse with drivers [sst-cre, ai14] gives
\* "sst-cre,ai14"); the description step raises only when the organism or the
\* genotype has to come from the registry and that lookup raises.
C10_DescriptionCasesExceptHuman ==
    LET org == OrganismOf(env)
        g   == GenotypeOf(env)
    IN  /\ result.ran /\ OrganismKnown(env) /\ org = "human" =>
            result.description = Plain("human")
        /\ result.ran /\ OrganismKnown(env) /\ GenotypeKnown(env)
              /\ org \notin {None, "human"} =>
            /\ ~DescriptionRaised
            /\ g # None /\ env.decode.ok =>
                  result.description = Plain(Join(env.decode.drivers))
            /\ g # None /\ env.decode = [ok |-> TRUE, drivers |-> <<"sst-cre", "ai14">>] =>
                  result.description = Plain("sst-cre,ai14")
            /\ g = None => result.description = Failing(org \o " (no genotype)")
            /\ g # None /\ ~env.decode.ok =>
                  result.description = Failing(org \o " (unknown: " \o g \o ")")
        /\ DescriptionRaised =>
            /\ RegistryRaises(env)
            /\ env.org = None \/ env.gtyp = None

C10_Witness ==
    /\ result.ran
    /\ env.org = "mouse"
    /\ env.gtyp = "Sst-IRES-Cre/wt;Ai14/wt"
    /\ env.decode.drivers = <<"sst-cre", "ai14">>
    /\ result.description = [text |-> "sst-cre,ai14", failing |-> FALSE]

\* C11: a check of an object that has been checked before, with the
\* collaborators' answers unchanged (they never change in CheckSpec), gives
\* the same outcome field by field: the same record, or a failure again,
\* whatever the earlier check and the path reads in between left cached.
C11_CheckIdempotent ==
    [][result.ran =>
          /\ result'.exc = result.exc
          /\ DOMAIN result'.rec = DOMAIN result.rec
          /\ \A f \in DOMAIN result.rec : result'.rec[f] = result.rec[f]]_vars

\* Witness of C11: the second check of an object whose paths the first check
\* resolved and cached has returned a record.
C11_Witness ==
    /\ result.again
    /\ ~result.exc
    /\ obj.paths["primary"] # NoPath
    /\ result.rec["archive"] = "MISSING"
    /\ result.rec["LIMS"] = "True"

\* The visible fields that show a status (all but 'timestamp' and 'path').
StatusFields ==
    {"rig", "description", "primary", "archive", "backup", "NAS",
     "pipettes.yml", "site.mosaic", "DB", "LIMS"}

\* C12 (as claimed): the record emitted for an experiment whose check raised
\* carries the failure in 'error' and has every visible status field set to
\* the error marker.
C12_ErrorRecordMarksAllFields ==
    (event.kind = "emit" /\ "error" \in DOMAIN event.rec) =>
        /\ event.rec["error"] = "exc_info"
        /\ \A f \in StatusFields :
              /\ f \in DOMAIN event.rec
              /\ event.rec[f] = "ERROR"

\* C13 as claimed: in a checked record each of primary, archive and backup
\* is false for an unresolved path, "MISSING" for a resolved path that does
\* not exist and true for a resolved path that exists.
C13_PresenceMissing ==
    Checked =>
        \A r \in Roles :
            result.rec[r] =
                IF obj.paths[r] = NoPath THEN "False"
                ELSE IF env.dirs[obj.paths[r].set][r] = "absent" THEN "MISSING"
                ELSE "True"

\* C13 amended: as claimed for archive and backup; for primary a resolved
\* path that does not exist gives "-" instead of "MISSING".
C13_PresencePerRole ==
    Checked =>
        \A r \in Roles :
            result.rec[r] =
                IF obj.paths[r] = NoPath THEN "False"
                ELSE IF env.dirs[obj.paths[r].set][r] = "absent"
                     THEN (IF r = "primary" THEN "-" ELSE "MISSING")
                ELSE "True"

\* Witness of C13: a checked record with a resolved primary path that does
\* not exist, a missing archive and an existing backup.
C13_Witness ==
    /\ Checked
    /\ obj.paths["primary"] # NoPath
    /\ result.rec["primary"] = "-"
    /\ result.rec["archive"] = "MISSING"
    /\ result.rec["backup"] = "True"

\* The number of tuples in the queue.
QSize(q) == Cardinality(q.items) + q.stops

\* C14: a get (a step that takes a tuple out of the queue) made while
\* experiments are queued returns an experiment whose timestamp is the
\* greatest among the experiments queued at that moment, whoever put them, and
\* leaves the sentinels in the queue.
C14_GetReturnsNewestPresent ==
    [][(QSize(queue') < QSize(queue) /\ queue.items # {}) =>
          /\ queue'.stops = queue.stops
          /\ \E it \in queue.items :
                /\ queue'.items = queue.items \ {it}
                /\ \A j \in queue.items : j.ts <= it.ts]_vars

\* Witness of C14: with a sentinel queued, gets have returned the timestamps
\* 3 and 2 put by different scanners, and older experiments are still queued.
C14_Witness ==
    /\ queue.stops > 0
    /\ minGot = 2
    /\ 3 \in seen[2]
    /\ 3 \notin seen[1]
    /\ ExptItem(1, <<1, 1>>) \in queue.items
    /\ ExptItem(2, <<2, 2>>) \in queue.items

\* ------------------------------------------------------------- ScanSpec
\* The scanners alone, with the loop body of poll in two steps, so that a
\* stop() from the main thread can fall between the test of _stop and the put.
\* stop() may be called on any scanner at any time.

\* Mutant of StopSeen: the loop body does not look at _stop.
StopNeverSeen(p) == FALSE

\* poll, "if self._stop: return" at the top of the loop body.
StopSeen(p) == pollStop[p]

\* Mutant of Skips: timestamps already seen in this pass are not skipped.
SkipsUnreadableOnly(p, t) == t = NoTs

\* poll: the two "continue" tests: no timestamp, or one seen in this pass.
Skips(p, t) == t = NoTs \/ t \in seen[p]

\* poll, the loop body up to the second continue: the test of _stop, then the
\* metadata and timestamp t of the next site the glob iterator yields.
ScLook(p) ==
    /\ pollPc[p] = "scan"
    /\ IF StopSeen(p)
       THEN /\ pollPc' = [pollPc EXCEPT ![p] = "wait"]
            /\ PollReturns(p)
            /\ UNCHANGED site
       ELSE \E t \in PollStamps \cup {NoTs} :
            IF Skips(p, t)
            THEN UNCHANGED <<pollPc, seen, count, site>>
            ELSE /\ count[p] < MaxSites
                 /\ site' = [site EXCEPT ![p] = t]
                 /\ pollPc' = [pollPc EXCEPT ![p] = "put"]
                 /\ UNCHANGED <<seen, count>>
    /\ event' = NoEvent
    /\ UNCHANGED <<limit, pollStop, queue, chkVars, quitPc, histVars, storeVars,
                   checkVars>>

\* poll, the rest of the loop body: expts[ts] = expt, the put, the count and
\* the test of the limit.
ScPut(p) ==
    /\ pollPc[p] = "put"
    /\ queue' = QPut(queue, ExptItem(site[p], <<p, site[p]>>))
    /\ site' = [site EXCEPT ![p] = NoTs]
    /\ IF limit > 0 /\ count[p] + 1 >= limit
       THEN /\ pollPc' = [pollPc EXCEPT ![p] = "wait"]
            /\ PollReturns(p)
       ELSE /\ seen' = [seen EXCEPT ![p] = @ \cup {site[p]}]
            /\ count' = [count EXCEPT ![p] = @ + 1]
            /\ pollPc' = [pollPc EXCEPT ![p] = "scan"]
    /\ event' = NoEvent
    /\ UNCHANGED <<limit, pollStop, chkVars, quitPc, histVars, storeVars, checkVars>>

\* PollThread.stop is called on scanner p.
ScStop(p) ==
    /\ ~pollStop[p]
    /\ StopPoller(p)
    /\ event' = NoEvent
    /\ UNCHANGED <<limit, site, pollPc, seen, count, queue, chkVars, quitPc,
                   histVars, storeVars, checkVars>>

\* A step of the thread of scanner p.
ScStep(p) ==
    \/ PollBegin(p)
    \/ ScLook(p)
    \/ ScPut(p)
    \/ PollEnd(p)
    \/ PollRaise(p)
    \/ PollWake(p)

ScanNext ==
    \/ \E p \in Pollers : ScStep(p)
    \/ \E p \in Pollers : ScStop(p)

ScanSpec == Init /\ [][ScanNext]_vars

\* ------------------------------------------------ claims on the scanners
\* The thread of scanner p is inside the loop of poll.
InPass(p) == pollPc[p] \in {"scan", "put"}

\* The step is the put of scanner p.
PutBy(p) == pollPc[p] = "put" /\ pollPc'[p] # "put"

\* C15: within a pass every put is of a readable timestamp not yet seen in
\* the pass, carried by the item as its key; a skipped site (unreadable or
\* duplicate) leaves the pass running and is never taken up for a put; and the
\* number of puts of the pass equals the number of distinct timestamps seen.
C15_OnePutPerTimestamp ==
    /\ [](\A p \in Pollers : InPass(p) => count[p] = Cardinality(seen[p]))
    /\ [][\A p \in Pollers :
            /\ PutBy(p) =>
                  /\ site[p] \in Stamps \ seen[p]
                  /\ queue' = QPut(queue, ExptItem(site[p], <<p, site[p]>>))
            /\ (pollPc[p] = "scan" /\ pollPc'[p] = "put") =>
                  site'[p] \in Stamps \ seen[p]
            /\ (pollPc[p] = "scan" /\ queue'.items # queue.items) =>
                  \A it \in queue'.items \ queue.items : it.id[1] # p]_vars

\* Witness of C15: a pass has put the timestamps 1 and 2, once each, and is
\* still running.
C15_Witness ==
    \E p \in Pollers :
        /\ pollPc[p] = "scan"
        /\ seen[p] = {1, 2}
        /\ count[p] = 2
        /\ {ExptItem(1, <<p, 1>>), ExptItem(2, <<p, 2>>)} \subseteq queue.items

\* How far the thread of a stopped scanner is from its end: from the start
\* of poll or from the put to the test of _stop, from there to the wait, and
\* from the wait to the end of run.
Rank(pc) ==
    CASE pc = "start" -> 3
      [] pc = "put"   -> 3
      [] pc = "scan"  -> 2
      [] pc = "wait"  -> 1
      [] OTHER        -> 0

\* A step of scanner p that brings its thread nearer to its end.
Advance(p) == ScStep(p) /\ Rank(pollPc'[p]) < Rank(pollPc[p])

\* C16: once stop() has been called on a scanner, it takes up no further
\* site (it puts at most the site it was handling when stop() came), each of
\* its steps brings it nearer to the end of its thread, it can always take
\* such a step until the thread has ended, and it never returns to a pass.
C16_StopHonored ==
    /\ [](\A p \in Pollers :
            (pollStop[p] /\ pollPc[p] # "done") => ENABLED Advance(p))
    /\ [][\A p \in Pollers : pollStop[p] =>
            /\ pollStop'[p]
            /\ ScStep(p) => Rank(pollPc'[p]) < Rank(pollPc[p])
            /\ Rank(pollPc'[p]) <= Rank(pollPc[p])
            /\ pollPc'[p] = "put" => pollPc[p] = "put"
            /\ \A it \in queue'.items \ queue.items :
                  it.id[1] = p => (pollPc[p] = "put" /\ it.ts = site[p])]_vars

\* Witness of C16: stop() has come while the scanner, in the middle of a
\* pass, is handling a site it has not put yet.
C16_Witness ==
    /\ pollStop[1]
    /\ pollPc[1] = "put"
    /\ seen[1] = {1}
    /\ site[1] = 2

\* C17 (as claimed): a pass that is not stopped ends with the status
\* "Finished" for its root, also when it ends because the limit was reached.
C17_FinishedEndsEveryPass ==
    [][\A p \in Pollers :
         (InPass(p) /\ pollPc'[p] = "wait" /\ ~pollStop[p])
            => event' = StatusEvent(p, "Finished")]_vars


\* ------------------------------------------------- claims on the workers
\* C18 (as claimed): a worker terminates only on dequeuing a stop sentinel:
\* the step that ends its thread is taken with the sentinel in hand, never
\* with an experiment, and never from inside a check.
C18_EndsOnSentinelOnly ==
    [][\A w \in Checkers :
         (chkPc[w] # "done" /\ chkPc'[w] = "done") =>
            /\ cur[w].kind = "stop"
            /\ chkPc[w] \notin {"checking", "except"}]_vars

\* ------------------------------------------------------------- ModeSpec
\* Dashboard(limit, no_thread) in both modes.  With no_thread the constructor
\* itself calls poll() of each PollThread in turn and then
\* ExptCheckerThread.run(block=False) of its single checker, all in the main
\* thread; no thread is started and nothing calls stop().  Positions in that
\* mode: a scanner is "idle" until its poll is called, "nt_scan" inside it and
\* "returned" after it ("raised": poll raised and ended the constructor); the
\* checker is at "nt_get", "nt_have", "nt_checking", "nt_except", and at
\* "empty" once get has raised queue.Empty out of run; workers 2 and 3 are
\* "absent".
NtInit ==
    /\ limit \in 0..MaxLimit
    /\ pollPc = [p \in Pollers |-> "idle"]
    /\ pollStop = [p \in Pollers |-> FALSE]
    /\ seen = [p \in Pollers |-> {}]
    /\ count = [p \in Pollers |-> 0]
    /\ site = [p \in Pollers |-> NoTs]
    /\ queue = EmptyQueue
    /\ chkPc = [w \in Checkers |-> IF w = 1 THEN "nt_get" ELSE "absent"]
    /\ chkStop = [w \in Checkers |-> FALSE]
    /\ cur = [w \in Checkers |-> NoItem]
    /\ quitPc = <<"init", 0>>
    /\ event = NoEvent
    /\ minGot = NoTs
    /\ StoreInit
    /\ CheckIdle

\* __init__: poll_thread.poll() is called for the next search path.
NtPollBegin(p) ==
    /\ pollPc[p] = "idle"
    /\ \A q \in Pollers : q < p => pollPc[q] = "returned"
    /\ pollPc' = [pollPc EXCEPT ![p] = "nt_scan"]
    /\ seen' = [seen EXCEPT ![p] = {}]
    /\ count' = [count EXCEPT ![p] = 0]
    /\ event' = StatusEvent(p, "Updating...")
    /\ UNCHANGED <<limit, site, pollStop, queue, chkVars, quitPc, histVars,
                   storeVars, checkVars>>

\* One iteration of the for loop of poll, called from __init__.
NtPollSite(p) ==
    /\ pollPc[p] = "nt_scan"
    /\ IF StopSeen(p)
       THEN /\ pollPc' = [pollPc EXCEPT ![p] = "returned"]
            /\ PollReturns(p)
            /\ UNCHANGED queue
       ELSE \E t \in PollStamps \cup {NoTs} :
            IF Skips(p, t)
            THEN UNCHANGED <<seen, count, queue, pollPc>>
            ELSE /\ count[p] < MaxSites
                 /\ queue' = QPut(queue, ExptItem(t, <<p, t>>))
                 /\ IF limit > 0 /\ count[p] + 1 >= limit
                    THEN /\ pollPc' = [pollPc EXCEPT ![p] = "returned"]
                         /\ PollReturns(p)
                    ELSE /\ seen' = [seen EXCEPT ![p] = @ \cup {t}]
                         /\ count' = [count EXCEPT ![p] = @ + 1]
                         /\ UNCHANGED pollPc
    /\ event' = NoEvent
    /\ UNCHANGED <<limit, site, pollStop, chkVars, quitPc, histVars, storeVars,
                   checkVars>>

\* The glob iterator is exhausted: "Finished" is emitted and poll returns to
\* __init__.
NtPollEnd(p) ==
    /\ pollPc[p] = "nt_scan"
    /\ event' = StatusEvent(p, "Finished")
    /\ pollPc' = [pollPc EXCEPT ![p] = "returned"]
    /\ PollReturns(p)
    /\ UNCHANGED <<limit, site, pollStop, queue, chkVars, quitPc, histVars,
                   storeVars, checkVars>>

\* An exception inside poll: nothing catches it and the constructor ends.
NtPollRaise(p) ==
    /\ pollPc[p] = "nt_scan"
    /\ pollPc' = [pollPc EXCEPT ![p] = "raised"]
    /\ PollReturns(p)
    /\ event' = NoEvent
    /\ UNCHANGED <<limit, site, pollStop, queue, chkVars, quitPc, histVars,
                   storeVars, checkVars>>

\* __init__ has reached self.checker.run(block=False).
NtRunning == \A p \in Pollers : pollPc[p] = "returned"

\* Mutant of NtGet: the get waits on an empty queue as with block=True.
NtGetWaits ==
    /\ NtRunning
    /\ chkPc[1] = "nt_get"
    /\ ~QEmpty(queue)
    /\ \E it \in QHeads(queue) :
        /\ Take(it)
        /\ cur' = [cur EXCEPT ![1] = it]
    /\ chkPc' = [chkPc EXCEPT ![1] = "nt_have"]
    /\ event' = NoEvent
    /\ UNCHANGED <<pollVars, chkStop, quitPc, storeVars, checkVars>>

\* run(block=False): ts, expt = self.expt_queue.get(block=False): an item, or
\* queue.Empty at once; the get is outside the try block, so Empty leaves run.
NtGet ==
    /\ NtRunning
    /\ chkPc[1] = "nt_get"
    /\ IF QEmpty(queue)
       THEN /\ chkPc' = [chkPc EXCEPT ![1] = "empty"]
            /\ UNCHANGED <<queue, cur, histVars>>
       ELSE /\ \E it \in QHeads(queue) :
                /\ Take(it)
                /\ cur' = [cur EXCEPT ![1] = it]
            /\ chkPc' = [chkPc EXCEPT ![1] = "nt_have"]
    /\ event' = NoEvent
    /\ UNCHANGED <<pollVars, chkStop, quitPc, storeVars, checkVars>>

\* run(block=False): the if after get.
NtDecide ==
    /\ chkPc[1] = "nt_have"
    /\ IF StopsNow(1)
       THEN /\ chkPc' = [chkPc EXCEPT ![1] = "done"]
            /\ cur' = [cur EXCEPT ![1] = NoItem]
       ELSE /\ chkPc' = [chkPc EXCEPT ![1] = "nt_checking"]
            /\ UNCHANGED cur
    /\ event' = NoEvent
    /\ UNCHANGED <<pollVars, queue, chkStop, quitPc, histVars, storeVars, checkVars>>

\* run(block=False): self.update.emit(rec), then the next iteration.
NtEmit(rec) ==
    /\ event' = [kind |-> "emit", by |-> 1, rec |-> rec]
    /\ chkPc' = [chkPc EXCEPT ![1] = "nt_get"]
    /\ cur' = [cur EXCEPT ![1] = NoItem]

\* run(block=False): check returns and the record is emitted.
NtCheckReturns ==
    /\ chkPc[1] = "nt_checking"
    /\ NtEmit(OkRec(cur[1]))
    /\ UNCHANGED <<pollVars, queue, chkStop, quitPc, histVars, storeVars, checkVars>>

\* run(block=False): check raises.
NtCheckRaises ==
    /\ chkPc[1] = "nt_checking"
    /\ chkPc' = [chkPc EXCEPT ![1] = "nt_except"]
    /\ event' = NoEvent
    /\ UNCHANGED <<pollVars, queue, chkStop, cur, quitPc, histVars, storeVars, checkVars>>

\* run(block=False): the except branch builds the error record and emits it.
NtHandle ==
    /\ chkPc[1] = "nt_except"
    /\ NtEmit(ErrorRec(cur[1]))
    /\ UNCHANGED <<pollVars, queue, chkStop, quitPc, histVars, storeVars, checkVars>>

NtNext ==
    \/ \E p \in Pollers : NtPollBegin(p)
    \/ \E p \in Pollers : NtPollSite(p)
    \/ \E p \in Pollers : NtPollEnd(p)
    \/ \E p \in Pollers : NtPollRaise(p)
    \/ NtGet
    \/ NtDecide
    \/ NtCheckReturns
    \/ NtCheckRaises
    \/ NtHandle

ModeInit == Init \/ NtInit

ModeNext == Next \/ NtNext

ModeSpec == ModeInit /\ [][ModeNext]_vars

\* C19: with block=True a worker at get cannot go on while the queue is
\* empty, can go on as soon as it is not, and goes on with an item taken from
\* the queue; with block=False the get never waits: on an empty queue it ends
\* run at once with Empty, and otherwise it takes an item, every experiment
\* taken is checked and its record emitted, so that run ends only when the
\* queue is empty.
C19_BlockingAndNonBlockingGet ==
    /\ [](\A w \in Checkers :
            chkPc[w] = "get" => (ENABLED Get(w) <=> ~QEmpty(queue)))
    /\ [](chkPc[1] = "nt_get" /\ NtRunning => ENABLED NtGet)
    /\ [](chkPc[1] = "empty" => QEmpty(queue))
    /\ [][\A w \in Checkers :
            /\ (chkPc[w] = "get" /\ chkPc'[w] # "get") =>
                  /\ cur'[w] \in QHeads(queue)
                  /\ queue' = QRemove(queue, cur'[w])
            /\ (chkPc[w] = "nt_get" /\ chkPc'[w] # "nt_get") =>
                  IF QEmpty(queue)
                  THEN chkPc'[w] = "empty" /\ queue' = queue
                  ELSE /\ chkPc'[w] = "nt_have"
                       /\ cur'[w] \in QHeads(queue)
                       /\ queue' = QRemove(queue, cur'[w])
            /\ (chkPc[w] \in {"nt_have", "nt_checking", "nt_except"}
                  /\ cur[w].kind = "expt" /\ cur'[w] # cur[w]) =>
                  /\ event'.kind = "emit"
                  /\ event'.rec["experiment"] = cur[w].id
                  /\ chkPc'[w] = "nt_get"]_vars

\* Witness of C19: run(block=False) has taken experiments down to the oldest
\* timestamp from the queue and has ended with Empty on the empty queue.
C19_Witness ==
    /\ chkPc[1] = "empty"
    /\ minGot = 1
    /\ limit = 0
    /\ QEmpty(queue)


\* -------------------------------------------------------------- MemoSpec
\* One ExperimentMetadata object whose path accessors are read while the
\* filesystem changes.  The rig has MaxSets path sets; a path set is a mapping
\* from role names to roots and may leave a role out ("unconfigured").
ConfigStates == DirStates \cup {"unconfigured"}

MemoInputs ==
    [org : {"human"}, gtyp : {None}, decode : {[ok |-> FALSE, drivers |-> <<>>]},
     spec : {[kind |-> "notfound", rec |-> NoSpec]}, subs : {NoSubs},
     rig : {"mp1"}, subpathOk : {TRUE},
     dirs : [1..MaxSets -> [Roles -> ConfigStates]], order : {ListedOrder},
     pipettes : {TRUE}, mosaic : {TRUE}, dbRows : {1}]

MemoInit ==
    /\ PipeInit
    /\ limit = 0
    /\ StoreInit
    /\ env \in MemoInputs
    /\ obj = NewObj
    /\ result = NoResult
    /\ calls = NoCalls

\* The filesystem changes under a configured root: the directory at
\* root/subpath appears, disappears or is replaced.
ChangeDir(s, r) ==
    /\ env.dirs[s][r] \in DirStates
    /\ \E d \in DirStates \ {env.dirs[s][r]} :
          env' = [env EXCEPT !.dirs[s][r] = d]
    /\ UNCHANGED <<obj, result, calls, pipeVars, storeVars>>

MemoNext ==
    \/ \E r \in Roles : ReadPath(r)
    \/ \E s \in 1..MaxSets, r \in Roles : ChangeDir(s, r)

MemoSpec == MemoInit /\ [][MemoNext]_vars

\* C20 (as claimed): once a path accessor has been computed to a path, no
\* later read of any of the three accessors changes it, whatever happens to
\* the filesystem in between.
C20_ResolvedPathsKept ==
    [][\A r \in Roles :
         obj.paths[r] # NoPath => obj'.paths[r] = obj.paths[r]]_vars

\* ------------------------------------------------------------- FetchSpec
\* One ExperimentMetadata object whose registry-backed accessors are read
\* again and again; calls counts what reaches the registry.
MaxCalls == 2

Accessors == {"specimen_info", "organism", "genotype", "lims_submissions"}

\* specimen_info: the calls of lims.specimen_info one read makes (line 477 is
\* reached whenever the cache is None; only a returned record fills it).
SpecimenFetches(o, e) == IF o.specimen_info.found THEN 0 ELSE 1

\* organism, genotype: specimen_info is read only when the experiment's own
\* metadata has no value.
OrganismFetches(o, e) == IF e.org # None THEN 0 ELSE SpecimenFetches(o, e)
GenotypeFetches(o, e) == IF e.gtyp # None THEN 0 ELSE SpecimenFetches(o, e)

\* lims_submissions: the calls of lims.expt_submissions one read makes
\* (line 562, reached when there is a specimen record with an id).
SubmissionFetches(o, e) ==
    LET si == SpecimenInfo(o, e) IN
    IF ~si.exc /\ si.val.found /\ si.val.specimen_id # 0 THEN 1 ELSE 0

\* What one read of accessor a does to the object, and the calls it makes.
\* lims_submissions reads specimen_info at line 557 and again at line 559,
\* the second time from the cache the first one filled.
ReadOf(a, o, e) ==
    CASE a = "specimen_info" ->
           [obj |-> SpecimenInfo(o, e).obj,
            specimen_info |-> SpecimenFetches(o, e), expt_submissions |-> 0]
      [] a = "organism" ->
           [obj |-> Organism(o, e).obj,
            specimen_info |-> OrganismFetches(o, e), expt_submissions |-> 0]
      [] a = "genotype" ->
           [obj |-> Genotype(o, e).obj,
            specimen_info |-> GenotypeFetches(o, e), expt_submissions |-> 0]
      [] OTHER ->
           [obj |-> LimsSubmissions(o, e).obj,
            specimen_info |-> SpecimenFetches(o, e),
            expt_submissions |-> SubmissionFetches(o, e)]

FetchInit ==
    /\ PipeInit
    /\ limit = 0
    /\ StoreInit
    /\ env \in RegistryInputs
    /\ obj = NewObj
    /\ result = NoResult
    /\ calls = NoCalls

\* A read of expt.specimen_info, expt.organism, expt.genotype or
\* expt.lims_submissions (whether it returns or raises).
ReadAccessor(a) ==
    /\ calls.specimen_info < MaxCalls
    /\ calls.expt_submissions < MaxCalls
    /\ LET rd == ReadOf(a, obj, env) IN
        /\ obj' = rd.obj
        /\ calls' = [specimen_info |-> calls.specimen_info + rd.specimen_info,
                     expt_submissions |->
                         calls.expt_submissions + rd.expt_submissions]
    /\ UNCHANGED <<env, result, pipeVars, storeVars>>

FetchNext == \E a \in Accessors : ReadAccessor(a)

FetchSpec == FetchInit /\ [][FetchNext]_vars

\* C21 (as claimed): over any sequence of reads of organism, genotype,
\* specimen_info and lims_submissions on one object, the registry's specimen
\* lookup is invoked at most once (also when it reports that the specimen was
\* not found) and the submission count is queried at most once.
C21_RegistryFetchedOnce ==
    /\ calls.specimen_info <= 1
    /\ calls.expt_submissions <= 1

\* C22 (as claimed): a newly created record starts with all fields absent,
\* also when its add_record doubles the backing storage: a row shows, in every
\* field the record delivered for it did not write, no value at all (so no
\* value of an earlier record).  In StoreSpec a row is written once, by the
\* checker_update call that created it.
C22_NewRecordStartsEmpty ==
    \A n \in 1..Len(log) :
        \A f \in Fields \ DOMAIN log[n].rec :
            ArrGet(records, log[n].index)[f] = EmptyValue(f)

\* ----------------------------------------------------------- ResolveSpec
\* One ExperimentMetadata object whose path accessors are read, over every
\* configuration of up to MaxSets path sets (each with the three roles), every
\* content of the directories under their roots and every order of the roots.
ScanStates == DirStates \cup {"untimed"}

ResolveInputs ==
    [org : {"human"}, gtyp : {None}, decode : {[ok |-> FALSE, drivers |-> <<>>]},
     spec : {[kind |-> "notfound", rec |-> NoSpec]}, subs : {NoSubs},
     rig : {"mp1", None}, subpathOk : BOOLEAN,
     dirs : UNION {[1..n -> [Roles -> ScanStates]] : n \in 0..MaxSets},
     order : RoleOrders,
     pipettes : {TRUE}, mosaic : {TRUE}, dbRows : {1}]

ResolveInit ==
    /\ PipeInit
    /\ limit = 0
    /\ StoreInit
    /\ env \in ResolveInputs
    /\ obj = NewObj
    /\ result = NoResult
    /\ calls = NoCalls

ResolveNext == \E r \in Roles : ReadPath(r)

ResolveSpec == ResolveInit /\ [][ResolveNext]_vars

\* The path sets of the rig that hold, under some root, a directory with the
\* site's timestamp.
MatchingSets(e) ==
    {s \in 1..Len(e.dirs) : \E q \in Roles : e.dirs[s][q] = "match"}

\* C23 (as claimed): when the subpath and the rig of the site are known, a
\* read of a path accessor that has to resolve does not raise; if some path
\* set holds a directory with exactly the site's timestamp, the first such set
\* gives all three paths (directories with another timestamp do not count and
\* later sets are not consulted); if none does, or the rig has no path sets,
\* primary, archive and backup all stay unknown.
C23_FirstMatchingSetWins ==
    [][(env.subpathOk /\ env.rig # None) =>
        \A r \in Roles :
            (obj.paths[r] = NoPath /\ obj' = PathOf(obj, env, r).obj) =>
                LET p == PathOf(obj, env, r)
                    m == MatchingSets(env)
                IN  /\ ~p.exc
                    /\ m = {} =>
                         /\ p.val = NoPath
                         /\ \A q \in Roles : obj'.paths[q] = NoPath
                    /\ m # {} =>
                         LET s == CHOOSE t \in m : \A u \in m : t <= u IN
                         /\ p.val = Path(s, r)
                         /\ \A q \in Roles : obj'.paths[q] = Path(s, q)]_vars

\* -------------------------------------------------------------- StopSpec
\* The scanner and checker threads with stop() called on any of them at any
\* time and any number of times (by quit, or by another caller).  At most
\* MaxStops sentinels are in the queue at a time.  The dashboard was built
\* with limit=MaxLimit, so a pass ends after MaxLimit experiments.
MaxStops == 2

StopInit ==
    /\ PipeInit
    /\ limit = MaxLimit
    /\ StoreInit
    /\ CheckIdle

\* PollThread.stop is called on scanner p, for the first time or again.
StopScanner(p) ==
    /\ StopPoller(p)
    /\ event' = NoEvent
    /\ UNCHANGED <<limit, site, pollPc, seen, count, queue, chkVars, quitPc,
                   histVars, storeVars, checkVars>>

\* ExptCheckerThread.stop is called on worker w, for the first time or again.
StopWorker(w) ==
    /\ queue.stops < MaxStops
    /\ StopChecker(w)
    /\ event' = NoEvent
    /\ UNCHANGED <<pollVars, chkPc, cur, quitPc, histVars, storeVars, checkVars>>

StopNext ==
    \/ \E p \in Pollers : PollBegin(p)
    \/ \E p \in Pollers : PollSite(p)
    \/ \E p \in Pollers : PollEnd(p)
    \/ \E p \in Pollers : PollRaise(p)
    \/ \E p \in Pollers : PollWake(p)
    \/ \E w \in Checkers : Get(w)
    \/ \E w \in Checkers : Decide(w)
    \/ \E w \in Checkers : CheckReturns(w)
    \/ \E w \in Checkers : CheckRaises(w)
    \/ \E w \in Checkers : Handle(w)
    \/ \E p \in Pollers : StopScanner(p)
    \/ \E w \in Checkers : StopWorker(w)

StopSpec == StopInit /\ [][StopNext]_vars

\* C24 (as claimed): a second stop() on a scanner or on a checker worker
\* leaves the system as the first one left it: the stop flags, the contents
\* of the queue and the threads (so which of them end later) are unchanged by
\* the call.
C24_StopIdempotent ==
    [][/\ \A p \in Pollers :
            (pollStop[p] /\ StopScanner(p)) => UNCHANGED <<pollVars, queue, chkVars>>
       /\ \A w \in Checkers :
            (chkStop[w] /\ StopWorker(w)) => UNCHANGED <<pollVars, queue, chkVars>>]_vars

\* C25: after any sequence of add_record calls the size is the number of
\* calls made, the size does not exceed the length of the backing storage, the
\* view has exactly size entries, and the backing length is the initial size
\* times a power of two; an add doubles the storage exactly when it would
\* exceed it and the storage never shrinks.  (In StoreSpec every
\* checker_update call makes one add_record call.)
C25_CapacityInvariant ==
    /\ [](/\ records.size = Len(log)
          /\ records.size <= Len(records.data)
          /\ Len(View(records)) = records.size
          /\ \E k \in 0..MaxRecords : Len(records.data) = InitSize * (2 ^ k))
    /\ [][/\ records'.size = records.size + 1
          /\ Len(records'.data) =
                IF records.size + 1 > Len(records.data)
                THEN 2 * Len(records.data) ELSE Len(records.data)]_vars

\* Witness of C25: three adds, the last of which found room in the storage
\* the second doubling had made.
C25_Witness ==
    /\ records.size = 3
    /\ Len(View(records)) = 3
    /\ Len(records.data) = 4 * InitSize
    /\ Len(records.data) > records.size

\* ------------------------------------- claims on a failing scanner (Spec)
\* The step is an exception in the pass of scanner p (the only way from
\* inside the loop of poll straight to the end of the thread).
RaisedIn(p) == pollPc[p] = "scan" /\ pollPc'[p] = "done"

\* A step of the thread of scanner q in the pipeline.
ScannerStep(q) ==
    \/ PollBegin(q)
    \/ PollSite(q)
    \/ PollEnd(q)
    \/ PollRaise(q)
    \/ PollWake(q)

\* stop() has not been called on any checker worker.
NoWorkerStopped == \A w \in Checkers : ~chkStop[w]

C27_PathsFromOneSet ==
    \A r, q \in Roles :
        (obj.paths[r] # NoPath /\ obj.paths[q] # NoPath) =>
            obj.paths[r].set = obj.paths[q].set

====
